---- MODULE Spec2Model ----
(***************************************************************************)
(* Model of runCmd (src/main.go): a command-group runner.  main resolves   *)
(* a configuration (embedded config.txt, optionally overridden by an       *)
(* external config.txt), looks up the requested group, computes the        *)
(* concurrency ceiling and starts one goroutine runCmdsInDir per target    *)
(* directory, gated by the buffered channel `worker`, then blocks on the   *)
(* WaitGroup.                                                              *)
(*                                                                         *)
(* Go strings are modelled as sequences of one-character strings, so that  *)
(* TrimSpace, HasPrefix, Trim, SplitN and Atoi are computed character by   *)
(* character as the library computes them.                                 *)
(***************************************************************************)
EXTENDS Integers, Sequences, FiniteSets, TLC

(***************************************************************************)
(* Bounds of the model.                                                    *)
(***************************************************************************)
\* largest number of target directories on the command line
MaxDirs == 2
\* largest number of output lines one child process writes
MaxLines == 1
\* longest value of the concurrency setting drawn in SpecConc
MaxValLen == 2
\* longest command list of a group drawn in SpecMerge
MaxCmds == 2
\* largest number of lines of an embedded text drawn in SpecHeader
MaxTextLines == 4

(***************************************************************************)
(* Strings.                                                                *)
(***************************************************************************)
\* unicode.IsSpace restricted to the characters the model uses
Space == {" ", "\t", "\r"}

Digit == {"0", "1", "2", "3", "4", "5", "6", "7", "8", "9"}

DigitVal(c) ==
    CASE c = "0" -> 0 [] c = "1" -> 1 [] c = "2" -> 2 [] c = "3" -> 3
      [] c = "4" -> 4 [] c = "5" -> 5 [] c = "6" -> 6 [] c = "7" -> 7
      [] c = "8" -> 8 [] c = "9" -> 9

\* the literals of main.go
S_settings == <<"s", "e", "t", "t", "i", "n", "g", "s">>
S_concurrency == <<"c", "o", "n", "c", "u", "r", "r", "e", "n", "c", "y">>

HasPrefix(s, p) == Len(s) >= Len(p) /\ SubSeq(s, 1, Len(p)) = p

HasSuffix(s, p) == Len(s) >= Len(p) /\ SubSeq(s, Len(s) - Len(p) + 1, Len(s)) = p

RECURSIVE TrimLeftSet(_, _)
TrimLeftSet(s, cut) ==
    IF s # <<>> /\ Head(s) \in cut THEN TrimLeftSet(Tail(s), cut) ELSE s

RECURSIVE TrimRightSet(_, _)
TrimRightSet(s, cut) ==
    IF s # <<>> /\ s[Len(s)] \in cut
    THEN TrimRightSet(SubSeq(s, 1, Len(s) - 1), cut)
    ELSE s

\* strings.Trim(s, cutset)
Trim(s, cut) == TrimRightSet(TrimLeftSet(s, cut), cut)

\* strings.TrimSpace(s)
TrimSpace(s) == Trim(s, Space)

\* index of the first occurrence of character c in s, 0 when absent
RECURSIVE IndexFrom(_, _, _)
IndexFrom(s, c, i) ==
    IF i > Len(s) THEN 0
    ELSE IF s[i] = c THEN i
    ELSE IndexFrom(s, c, i + 1)

Index(s, c) == IndexFrom(s, c, 1)

\* strings.Join(elems, "\n")
RECURSIVE Join(_)
Join(elems) ==
    IF elems = <<>> THEN <<>>
    ELSE IF Len(elems) = 1 THEN elems[1]
    ELSE elems[1] \o <<"\n">> \o Join(Tail(elems))

\* bufio.ScanLines: the tokens of a bufio.Scanner over the text, each line
\* without its end-of-line marker (a trailing "\r" is dropped as well)
DropCR(s) == IF s # <<>> /\ s[Len(s)] = "\r" THEN SubSeq(s, 1, Len(s) - 1) ELSE s

\* (the set constructors only bind the rest of the text to its value)
RECURSIVE ScanLines(_)
ScanLines(data) ==
    IF data = <<>> THEN <<>>
    ELSE CHOOSE r \in
           {IF i = 0 THEN <<DropCR(data)>>
            ELSE <<DropCR(SubSeq(data, 1, i - 1))>>
                   \o CHOOSE t \in {ScanLines(rest) :
                                       rest \in {SubSeq(data, i + 1, Len(data))}} : TRUE
              : i \in {Index(data, "\n")}} : TRUE

\* strconv.Atoi(s): [ok |-> err == nil, n |-> value]; an optional sign
\* followed by one or more decimal digits, nothing else
RECURSIVE DigitsValue(_, _)
DigitsValue(s, acc) ==
    IF s = <<>> THEN acc ELSE DigitsValue(Tail(s), acc * 10 + DigitVal(Head(s)))

Atoi(s) ==
    LET signed == s # <<>> /\ Head(s) \in {"+", "-"}
        body == IF signed THEN Tail(s) ELSE s
    IN  IF body = <<>> \/ \E i \in 1..Len(body) : body[i] \notin Digit
        THEN [ok |-> FALSE, n |-> 0]
        ELSE [ok |-> TRUE,
              n |-> IF signed /\ Head(s) = "-"
                    THEN 0 - DigitsValue(body, 0)
                    ELSE DigitsValue(body, 0)]

(***************************************************************************)
(* Config: Settings and Groups are maps, modelled as functions whose       *)
(* domain is the set of keys present.                                      *)
(***************************************************************************)
EmptyMap == [k \in {} |-> <<>>]

Has(m, k) == k \in DOMAIN m

MapSet(m, k, v) == [x \in (DOMAIN m) \cup {k} |-> IF x = k THEN v ELSE m[x]]

\* every entry of src written into dst (the range loops of mergeConfig)
MapCopyInto(dst, src) ==
    [x \in (DOMAIN dst) \cup (DOMAIN src) |-> IF x \in DOMAIN src THEN src[x] ELSE dst[x]]

NewConfig == [Settings |-> EmptyMap, Groups |-> EmptyMap]

\* a header that leaves a group it finds as it is
OpenGroupKeeping(groups, g) == IF Has(groups, g) THEN groups ELSE MapSet(groups, g, <<>>)

\* line 44: cfg.Groups[currentGroup] = []string{}
OpenGroup(groups, g) == MapSet(groups, g, <<>>)

\* one iteration of the scanner loop of parseConfig on one raw line;
\* st = [cfg, currentGroup]
ParseLine(st, raw) ==
    LET line == TrimSpace(raw)
    IN  IF line = <<>> \/ HasPrefix(line, <<"#">>) THEN st
        ELSE IF HasPrefix(line, <<"[">>) /\ HasSuffix(line, <<"]">>)
        THEN LET g == Trim(line, {"[", "]"})
             IN  [cfg |-> IF g # S_settings
                          THEN [st.cfg EXCEPT !.Groups = OpenGroup(@, g)]
                          ELSE st.cfg,
                  currentGroup |-> g]
        ELSE IF st.currentGroup = S_settings
        THEN LET i == Index(line, "=")
             IN  IF i # 0
                 THEN [st EXCEPT !.cfg.Settings =
                          MapSet(@, TrimSpace(SubSeq(line, 1, i - 1)),
                                    TrimSpace(SubSeq(line, i + 1, Len(line))))]
                 ELSE st
        ELSE IF st.currentGroup # <<>>
        THEN [st EXCEPT !.cfg.Groups =
                 MapSet(@, st.currentGroup, @[st.currentGroup] \o <<line>>)]
        ELSE st

\* the scanner loop of parseConfig (the set constructor only binds the state
\* after the first line to its value)
RECURSIVE ParseLines(_, _)
ParseLines(st, lines) ==
    IF lines = <<>> THEN st
    ELSE CHOOSE r \in {ParseLines(s, Tail(lines)) : s \in {ParseLine(st, Head(lines))}} : TRUE

parseConfig(content) ==
    (CHOOSE r \in {ParseLines([cfg |-> NewConfig, currentGroup |-> <<>>], lines) :
                      lines \in {ScanLines(content)}} : TRUE).cfg

\* a merge that appends the override's commands to the base's
mergeConfigAppending(base, override) ==
    [Settings |-> MapCopyInto(MapCopyInto(EmptyMap, base.Settings), override.Settings),
     Groups   |-> [g \in (DOMAIN base.Groups) \cup (DOMAIN override.Groups) |->
                     (IF g \in DOMAIN base.Groups THEN base.Groups[g] ELSE <<>>)
                       \o (IF g \in DOMAIN override.Groups THEN override.Groups[g] ELSE <<>>)]]

\* lines 66-89
mergeConfig(base, override) ==
    [Settings |-> MapCopyInto(MapCopyInto(EmptyMap, base.Settings), override.Settings),
     Groups   |-> MapCopyInto(MapCopyInto(EmptyMap, base.Groups), override.Groups)]

\* the effective concurrency of main: 3 unless the setting parses to n > 0
DefaultConcurrency == 3

\* a ceiling that accepts a parsed 0
ConcurrencyNonNegative(settings) ==
    IF Has(settings, S_concurrency)
    THEN LET r == Atoi(settings[S_concurrency])
         IN  IF r.ok /\ r.n >= 0 THEN r.n ELSE DefaultConcurrency
    ELSE DefaultConcurrency

\* lines 151-156
Concurrency(settings) ==
    IF Has(settings, S_concurrency)
    THEN LET r == Atoi(settings[S_concurrency])
         IN  IF r.ok /\ r.n > 0 THEN r.n ELSE DefaultConcurrency
    ELSE DefaultConcurrency

(***************************************************************************)
(* The state of one run of the program.                                    *)
(***************************************************************************)
VARIABLES
    osArgs,       \* os.Args: program name, group, directories
    embedded,     \* content of the embedded config.txt
    external,     \* content of the external config.txt, or NoFile
    mpc,          \* position of main
    base,         \* parseConfig of the embedded content
    override,     \* parseConfig of the external content
    cfg,          \* main's cfg
    cmds,         \* main's cmds, shared by every task
    concurrency,  \* main's concurrency
    workerCap,    \* capacity of the channel worker (0 before make)
    worker,       \* number of elements buffered in the channel worker
    wg,           \* counter of the WaitGroup
    di,           \* index of the next directory of the dispatch loop
    pc,           \* position of each runCmdsInDir goroutine
    script,       \* the script handed to each task's shell
    child,        \* each task's child process: "none", "running", "exited"
    emitted,      \* number of lines each child has written
    pipe,         \* lines written by each child and not yet read
    status,       \* how each child ended
    out,          \* standard output, projected on the lines each task wrote
    mainOut,      \* standard output, the lines main wrote
    acq,          \* number of sends on worker each task has completed
    rel,          \* number of receives from worker each task has completed
    exitCode,     \* {exit code} of the process, NotExited (no code) while it runs
    heap,         \* the maps and backing arrays the configurations live in
    refs,         \* the *Config values base, override and result of mergeConfig
    fpc           \* position of the caller of mergeConfig on the heap

vars == <<osArgs, embedded, external, mpc, base, override, cfg, cmds, concurrency,
          workerCap, worker, wg, di, pc, script, child, emitted, pipe, status,
          out, mainOut, acq, rel, exitCode, heap, refs, fpc>>

inputVars == <<osArgs, embedded, external>>
frameVars == <<heap, refs, fpc>>
mainVars == <<mpc, base, override, cfg, cmds, concurrency, workerCap, di, mainOut, exitCode>>
childVars == <<child, emitted, pipe, status>>

\* os.ReadFile(externalConfigFile): err # nil, or the content read
NoFile == [exists |-> FALSE, text |-> <<>>]
File(t) == [exists |-> TRUE, text |-> t]
NotExited == {}

\* the heap before any configuration is built: no settings map, no groups map,
\* no backing array; a *Config is a pair of addresses (indices) into it
EmptyHeap == [settings |-> <<>>, groups |-> <<>>, arrays |-> <<>>]
NoRef == [Settings |-> 0, Groups |-> 0]
NoRefs == [base |-> NoRef, override |-> NoRef, result |-> NoRef]

Tasks == 1..MaxDirs

\* os.Args[1] and os.Args[2:]
group == osArgs[2]
dirs == SubSeq(osArgs, 3, Len(osArgs))
NumDirs == IF Len(osArgs) < 3 THEN 0 ELSE Len(osArgs) - 2

\* how a child process can end, as c.Wait() reports it: "success" is exit
\* status 0; "failure" is a non-zero exit status or a death by signal, for
\* both of which c.Wait() returns an *exec.ExitError
ExitStatuses == {"success", "failure"}

\* the lines the program prints; a line of a task carries the task's directory
UsageLine == [kind |-> "usage"]
OverrideLine == [kind |-> "override"]
NotFoundLine(g) == [kind |-> "notfound", group |-> g]
MaxConcLine(n) == [kind |-> "maxconc", n |-> n]
StartBanner(d) == [kind |-> "start", dir |-> d]
\* a start-failure line without its directory
StartFailLineUntagged(d) == [kind |-> "startfail", dir |-> <<>>]
StartFailLine(d) == [kind |-> "startfail", dir |-> d]
TaggedLine(d, l) == [kind |-> "line", dir |-> d, line |-> l]
ExecErrorLine(d, st) == [kind |-> "execerror", dir |-> d, err |-> st]
DoneBanner(d) == [kind |-> "done", dir |-> d]

(***************************************************************************)
(* main                                                                    *)
(***************************************************************************)
\* a check that accepts a group without a directory
TooFewArgsNoGroup(args) == Len(args) < 2

\* line 125: len(os.Args) < 3
TooFewArgs(args) == Len(args) < 3

\* lines 125-131: the usage check
MainArgs ==
    /\ mpc = "args"
    /\ IF TooFewArgs(osArgs)
       THEN /\ mainOut' = Append(mainOut, UsageLine)
            /\ mpc' = "returned"
            /\ exitCode' = {0}
       ELSE /\ mpc' = "load"
            /\ UNCHANGED <<mainOut, exitCode>>
    /\ UNCHANGED <<inputVars, frameVars, base, override, cfg, cmds, concurrency, workerCap,
                   worker, wg, di, pc, script, childVars, out, acq, rel>>

\* lines 134-140: parse the embedded configuration and, when the external file
\* can be read, the external one
MainLoad ==
    /\ mpc = "load"
    /\ base' = parseConfig(embedded)
    /\ cfg' = base'
    /\ IF external.exists
       THEN /\ mainOut' = Append(mainOut, OverrideLine)
            /\ override' = parseConfig(external.text)
            /\ mpc' = "merge"
       ELSE /\ mpc' = "lookup"
            /\ UNCHANGED <<mainOut, override>>
    /\ UNCHANGED <<inputVars, frameVars, cmds, concurrency, workerCap, exitCode,
                   worker, wg, di, pc, script, childVars, out, acq, rel>>

\* line 141
MainMerge ==
    /\ mpc = "merge"
    /\ cfg' = mergeConfig(cfg, override)
    /\ mpc' = "lookup"
    /\ UNCHANGED <<inputVars, frameVars, base, override, cmds, concurrency, workerCap, mainOut,
                   exitCode, worker, wg, di, pc, script, childVars, out, acq, rel>>

\* line 144: cmds, ok := cfg.Groups[group]; a missing key yields the nil slice
\* a lookup that does not test ok
LookupIgnoringOk(groups, g) ==
    [cmds |-> IF Has(groups, g) THEN groups[g] ELSE <<>>, ok |-> TRUE]

Lookup(groups, g) ==
    [cmds |-> IF Has(groups, g) THEN groups[g] ELSE <<>>, ok |-> Has(groups, g)]

\* lines 144-148: the group lookup
MainLookup ==
    /\ mpc = "lookup"
    /\ LET r == Lookup(cfg.Groups, group)
       IN  /\ cmds' = r.cmds
           /\ IF r.ok
              THEN /\ mpc' = "concurrency"
                   /\ UNCHANGED <<mainOut, exitCode>>
              ELSE /\ mainOut' = Append(mainOut, NotFoundLine(group))
                   /\ mpc' = "returned"
                   /\ exitCode' = {0}
    /\ UNCHANGED <<inputVars, frameVars, base, override, cfg, concurrency, workerCap,
                   worker, wg, di, pc, script, childVars, out, acq, rel>>

\* a channel with room for one element more than the ceiling
ChanCapOneMore(n) == n + 1

\* line 159: make(chan struct{}, concurrency): the capacity of the channel
ChanCap(n) == n

\* lines 150-160: the concurrency ceiling, the channel and the WaitGroup
MainConcurrency ==
    /\ mpc = "concurrency"
    /\ concurrency' = Concurrency(cfg.Settings)
    /\ mainOut' = Append(mainOut, MaxConcLine(concurrency'))
    /\ workerCap' = ChanCap(concurrency')
    /\ worker' = 0
    /\ wg' = 0
    /\ di' = 1
    /\ mpc' = "dispatch"
    /\ UNCHANGED <<inputVars, frameVars, base, override, cfg, cmds, exitCode,
                   pc, script, childVars, out, acq, rel>>

\* a loop that passes over every other directory
NextIndexSkipping(n) == n + 2

\* for _, dir := range dirs: the position after position n
NextIndex(n) == n + 1

\* lines 162-165: one iteration of the loop: wg.Add(1); go runCmdsInDir(...)
MainDispatch ==
    /\ mpc = "dispatch"
    /\ di <= NumDirs
    /\ wg' = wg + 1
    /\ pc' = [pc EXCEPT ![di] = "acquire"]
    /\ di' = NextIndex(di)
    /\ UNCHANGED <<inputVars, frameVars, mpc, base, override, cfg, cmds, concurrency, workerCap,
                   mainOut, exitCode, worker, script, childVars, out, acq, rel>>

\* the code with which the process exits when main returns after wg.Wait():
\* main returns normally whatever the tasks wrote
ExitCodeOfRun(o) == 0

\* a wait that returns with one task outstanding
WgWaitReturnsEarly(counter) == counter <= 1

\* wg.Wait() returns when the counter is zero

WgWaitReturns(counter) == counter = 0

\* line 166: wg.Wait(), after which main returns
MainWait ==
    /\ mpc = "dispatch"
    /\ di > NumDirs
    /\ WgWaitReturns(wg)
    /\ mpc' = "returned"
    /\ exitCode' = {ExitCodeOfRun(out)}
    /\ UNCHANGED <<inputVars, frameVars, base, override, cfg, cmds, concurrency, workerCap, di,
                   mainOut, worker, wg, pc, script, childVars, out, acq, rel>>

(***************************************************************************)
(* runCmdsInDir, the goroutine of task i (the i-th directory), and its     *)
(* child process.                                                          *)
(***************************************************************************)
dirOf(i) == osArgs[i + 2]

\* a channel that takes one element more than its capacity
CanSendOffByOne(len, cap) == len <= cap

\* a channel that takes one element fewer than its capacity
CanSendNever(len, cap) == len + 1 < cap

\* a send on the buffered channel can proceed when the buffer is not full

CanSend(len, cap) == len < cap

\* line 94: worker <- struct{}{}
TaskAcquire(i) ==
    /\ pc[i] = "acquire"
    /\ CanSend(worker, workerCap)
    /\ worker' = worker + 1
    /\ acq' = [acq EXCEPT ![i] = @ + 1]
    /\ pc' = [pc EXCEPT ![i] = "banner"]
    /\ UNCHANGED <<inputVars, frameVars, mainVars, wg, script, childVars, out, rel>>

\* line 97: the start banner
TaskBanner(i) ==
    /\ pc[i] = "banner"
    /\ out' = [out EXCEPT ![i] = Append(@, StartBanner(dirOf(i)))]
    /\ pc' = [pc EXCEPT ![i] = "start"]
    /\ UNCHANGED <<inputVars, frameVars, mainVars, worker, wg, script, childVars, acq, rel>>

\* lines 93 and 95: the deferred calls, in the order of their defer statements
Deferred == <<"wgdone", "release">>

\* deferred calls run in the order of their defer statements
RunDeferredInOrder(k) == IF k > Len(Deferred) THEN "end" ELSE Deferred[k]

\* the k-th deferred call to run when the function returns: the calls run in
\* the reverse of the order of their defer statements; after the last, the
\* goroutine ends
RunDeferred(k) == IF k > Len(Deferred) THEN "end" ELSE Deferred[Len(Deferred) + 1 - k]

\* the position after the deferred call p
AfterDeferred(p) == RunDeferred((CHOOSE k \in 1..Len(Deferred) : RunDeferred(k) = p) + 1)

\* a start failure that does not return and goes on to the completion banner
AfterStartNoReturn(started) == IF started THEN "scan" ELSE "finish"

\* a start failure that returns without receiving from worker
AfterStartLeak(started) == IF started THEN "scan" ELSE "wgdone"

\* the position after c.Start(): on an error the function returns, and its
\* deferred calls run

AfterStart(started) == IF started THEN "scan" ELSE RunDeferred(1)

\* lines 99-110: build the script and start the shell in the directory; the
\* start fails or succeeds as the environment decides
TaskStart(i) ==
    /\ pc[i] = "start"
    /\ script' = [script EXCEPT ![i] = Join(cmds)]
    /\ \E started \in BOOLEAN :
          /\ pc' = [pc EXCEPT ![i] = AfterStart(started)]
          /\ IF started
             THEN /\ child' = [child EXCEPT ![i] = "running"]
                  /\ UNCHANGED out
             ELSE /\ out' = [out EXCEPT ![i] = Append(@, StartFailLine(dirOf(i)))]
                  /\ UNCHANGED child
    /\ UNCHANGED <<inputVars, frameVars, mainVars, worker, wg, emitted, pipe, status, acq, rel>>

\* the number of lines the child of task i writes at most: the first child one
\* more than the others
LineCap(i) == IF i = 1 THEN MaxLines + 1 ELSE MaxLines

\* the child writes one more line to its standard output or standard error,
\* both of which are the pipe
ChildWrite(i) ==
    /\ child[i] = "running"
    /\ emitted[i] < LineCap(i)
    /\ emitted' = [emitted EXCEPT ![i] = @ + 1]
    /\ pipe' = [pipe EXCEPT ![i] = Append(@, emitted[i] + 1)]
    /\ UNCHANGED <<inputVars, frameVars, mainVars, worker, wg, pc, script, child, status,
                   out, acq, rel>>

\* the child ends, which closes its end of the pipe
ChildExit(i) ==
    /\ child[i] = "running"
    /\ \E st \in ExitStatuses : status' = [status EXCEPT ![i] = st]
    /\ child' = [child EXCEPT ![i] = "exited"]
    /\ UNCHANGED <<inputVars, frameVars, mainVars, worker, wg, pc, script, emitted, pipe,
                   out, acq, rel>>

\* a scanner that yields the newest line of the stream
ScanTextNewest(p) == p[Len(p)]

\* scanner.Text() after scanner.Scan(): the oldest line not yet read
ScanText(p) == Head(p)

\* lines 114-115: scanner.Scan() yields the next line, which is printed tagged
TaskScanLine(i) ==
    /\ pc[i] = "scan"
    /\ pipe[i] # <<>>
    /\ out' = [out EXCEPT ![i] = Append(@, TaggedLine(dirOf(i), ScanText(pipe[i])))]
    /\ pipe' = [pipe EXCEPT ![i] = Tail(@)]
    /\ UNCHANGED <<inputVars, frameVars, mainVars, worker, wg, pc, script, child, emitted,
                   status, acq, rel>>

\* a scan that gives up when no line is pending and kills a child still running
TaskScanTimeout(i) ==
    /\ pc[i] = "scan"
    /\ pipe[i] = <<>>
    /\ child[i] # "none"
    /\ child' = [child EXCEPT ![i] = "exited"]
    /\ status' = [status EXCEPT ![i] = IF child[i] = "running" THEN "failure" ELSE @]
    /\ pc' = [pc EXCEPT ![i] = "wait"]
    /\ UNCHANGED <<inputVars, frameVars, mainVars, worker, wg, script, emitted, pipe,
                   out, acq, rel>>

\* line 114: scanner.Scan() returns false at the end of the stream
TaskScanEOF(i) ==
    /\ pc[i] = "scan"
    /\ pipe[i] = <<>>
    /\ child[i] = "exited"
    /\ pc' = [pc EXCEPT ![i] = "wait"]
    /\ UNCHANGED <<inputVars, frameVars, mainVars, worker, wg, script, childVars, out, acq, rel>>

\* a wait whose error is dropped
WaitFailsNever(st) == FALSE

\* err of c.Wait() is non-nil unless the child exited with status 0

WaitFails(st) == st # "success"

\* a wait error that returns before the completion banner
AfterWaitReturnOnError(failed) == IF failed THEN "release" ELSE "finish"

\* the position after c.Wait(): the function goes on to the completion banner
\* whether or not err is nil

AfterWait(failed) == "finish"

\* lines 118-120: c.Wait() and the execution-error line
TaskWait(i) ==
    /\ pc[i] = "wait"
    /\ child[i] = "exited"
    /\ out' = [out EXCEPT ![i] =
                 IF WaitFails(status[i])
                 THEN Append(@, ExecErrorLine(dirOf(i), status[i]))
                 ELSE @]
    /\ pc' = [pc EXCEPT ![i] = AfterWait(WaitFails(status[i]))]
    /\ UNCHANGED <<inputVars, frameVars, mainVars, worker, wg, script, childVars, acq, rel>>

\* line 121: the completion banner
TaskFinish(i) ==
    /\ pc[i] = "finish"
    /\ out' = [out EXCEPT ![i] = Append(@, DoneBanner(dirOf(i)))]
    /\ pc' = [pc EXCEPT ![i] = RunDeferred(1)]
    /\ UNCHANGED <<inputVars, frameVars, mainVars, worker, wg, script, childVars, acq, rel>>

\* line 95, deferred: <-worker
TaskRelease(i) ==
    /\ pc[i] = "release"
    /\ worker > 0
    /\ worker' = worker - 1
    /\ rel' = [rel EXCEPT ![i] = @ + 1]
    /\ pc' = [pc EXCEPT ![i] = AfterDeferred("release")]
    /\ UNCHANGED <<inputVars, frameVars, mainVars, wg, script, childVars, out, acq>>

\* line 93, deferred: wg.Done()
TaskWgDone(i) ==
    /\ pc[i] = "wgdone"
    /\ wg' = wg - 1
    /\ pc' = [pc EXCEPT ![i] = AfterDeferred("wgdone")]
    /\ UNCHANGED <<inputVars, frameVars, mainVars, worker, script, childVars, out, acq, rel>>

(***************************************************************************)
(* The inputs of a run.                                                    *)
(***************************************************************************)
ProgName == <<"r", "u", "n", "C", "m", "d">>
GroupNames == {<<"g">>, <<"z">>}
DirNames == {<<"d", "1">>, <<"d", "2">>}

RECURSIVE SeqsUpTo(_, _)
SeqsUpTo(S, n) ==
    IF n = 0 THEN {<<>>}
    ELSE LET shorter == SeqsUpTo(S, n - 1)
         IN  shorter \cup {Append(s, x) : s \in {t \in shorter : Len(t) = n - 1}, x \in S}

\* the directory lists, up to a renaming of the directories: the first
\* directory of a list is d1 and no d1 follows a d2; a name may repeat
DirLists ==
    {ds \in SeqsUpTo(DirNames, MaxDirs) :
        /\ ds = <<>> \/ ds[1] = <<"d", "1">>
        /\ \A n \in 1..(Len(ds) - 1) : ds[n] = <<"d", "2">> => ds[n + 1] = <<"d", "2">>}

ArgLists ==
    {<<ProgName>>} \cup {<<ProgName, g>> \o ds : g \in GroupNames, ds \in DirLists}

\* "[settings]", "concurrency=" and "[g]" as lines
L_settings == <<"[">> \o S_settings \o <<"]">>
L_concurrency(v) == S_concurrency \o <<"=">> \o v
L_g == <<"[", "g", "]">>
L_z == <<"[", "z", "]">>

\* an embedded config.txt: concurrency 2 and a group g of two commands
EmbeddedTexts ==
    {Join(<<L_settings, L_concurrency(<<"2">>), L_g, <<"a">>, <<"b">>>>) \o <<"\n">>}

\* external files: one that lowers the concurrency to 1 and adds a group z, one
\* whose concurrency is not positive and that redefines g
ExternalTexts ==
    {Join(<<L_settings, <<" ">> \o L_concurrency(<<" ", "1">>) \o <<"\r">>, L_z, <<"x">>>>)
        \o <<"\n">>,
     Join(<<L_g, <<"x">>, L_settings, L_concurrency(<<"0">>)>>)}

NoTask == [i \in Tasks |-> 0]

InitRun ==
    /\ mpc = "args"
    /\ base = NewConfig
    /\ override = NewConfig
    /\ cfg = NewConfig
    /\ cmds = <<>>
    /\ concurrency = 0
    /\ workerCap = 0
    /\ worker = 0
    /\ wg = 0
    /\ di = 0
    /\ pc = [i \in Tasks |-> "none"]
    /\ script = [i \in Tasks |-> <<>>]
    /\ child = [i \in Tasks |-> "none"]
    /\ emitted = NoTask
    /\ pipe = [i \in Tasks |-> <<>>]
    /\ status = [i \in Tasks |-> "none"]
    /\ out = [i \in Tasks |-> <<>>]
    /\ mainOut = <<>>
    /\ acq = NoTask
    /\ rel = NoTask
    /\ exitCode = NotExited
    /\ heap = EmptyHeap
    /\ refs = NoRefs
    /\ fpc = "off"

Init ==
    /\ osArgs \in ArgLists
    /\ embedded \in EmbeddedTexts
    /\ external \in {NoFile} \cup {File(t) : t \in ExternalTexts}
    /\ InitRun

Main ==
    \/ MainArgs
    \/ MainLoad
    \/ MainMerge
    \/ MainLookup
    \/ MainConcurrency
    \/ MainDispatch
    \/ MainWait

Task(i) ==
    \/ TaskAcquire(i)
    \/ TaskBanner(i)
    \/ TaskStart(i)
    \/ TaskScanLine(i)
    \/ TaskScanEOF(i)
    \/ TaskWait(i)
    \/ TaskFinish(i)
    \/ TaskRelease(i)
    \/ TaskWgDone(i)

Child(i) == ChildWrite(i) \/ ChildExit(i)

Next ==
    \/ Main
    \/ \E i \in Tasks : Task(i)
    \/ \E i \in Tasks : Child(i)

Spec == Init /\ [][Next]_vars

(***************************************************************************)
(* The same program under the scheduling the Go runtime gives: main and    *)
(* every goroutine that can take a step eventually takes it, and (the      *)
(* assumption of the liveness claims) every child process that was         *)
(* started eventually ends.                                                *)
(***************************************************************************)
Fairness ==
    /\ WF_vars(Main)
    /\ \A i \in Tasks : WF_vars(Task(i))
    /\ \A i \in Tasks : WF_vars(ChildExit(i))

FairSpec == Spec /\ Fairness

(***************************************************************************)
(* Vocabulary of the properties.                                           *)
(***************************************************************************)
Dispatched == {i \in Tasks : pc[i] # "none"}

\* task i has sent on worker and not yet received from it
Holding(i) == acq[i] > rel[i]

HeldSlots == Cardinality({i \in Tasks : Holding(i)})

LiveChildren == Cardinality({i \in Tasks : child[i] = "running"})

KindCount(lines, k) == Cardinality({n \in 1..Len(lines) : lines[n].kind = k})

\* c.Start() of task i returned an error
StartFailed(i) == pc[i] \in {"release", "wgdone", "end"} /\ child[i] = "none"

\* main went past the group lookup and dispatched the tasks
RunReturned == mpc = "returned" /\ di >= 1

(***************************************************************************)
(* C1: in every reachable state the number of tasks that have acquired a   *)
(* slot of worker and not yet released it is at most the concurrency       *)
(* ceiling, and so is the number of child processes alive.                 *)
(***************************************************************************)
C1_SlotsBounded ==
    /\ HeldSlots <= concurrency
    /\ LiveChildren <= concurrency
    /\ worker <= concurrency

\* the ceiling is reached while another task waits for a slot
C1_Witness ==
    /\ concurrency >= 1
    /\ HeldSlots = concurrency
    /\ LiveChildren = concurrency
    /\ \E i \in Tasks : pc[i] = "acquire"

(***************************************************************************)
(* C2: when the run returns, every dispatched task has emitted exactly one *)
(* completion banner, whether its process failed to start, exited 0 or     *)
(* exited non-zero.                                                        *)
(***************************************************************************)
C2_BannerPerTask ==
    RunReturned =>
        /\ Dispatched = 1..NumDirs
        /\ \A i \in Dispatched : KindCount(out[i], "done") = 1

\* C2 as the code has it: when the run returns every dispatched task has
\* written exactly one terminal line, which is the completion banner (once) when
\* its process started, whatever its exit status, and the start-failure line
\* (once, and no completion banner) when its process failed to start
C2_TerminalLinePerTask ==
    RunReturned =>
        /\ Dispatched = 1..NumDirs
        /\ \A i \in Dispatched :
              /\ KindCount(out[i], "done") + KindCount(out[i], "startfail") = 1
              /\ KindCount(out[i], "done") = (IF child[i] = "none" THEN 0 ELSE 1)
              /\ out[i][Len(out[i])].kind = (IF child[i] = "none" THEN "startfail" ELSE "done")

\* the run returned; one task failed to start, one exited non-zero
C2_Witness ==
    /\ RunReturned
    /\ \E i \in Dispatched : child[i] = "none" /\ KindCount(out[i], "done") = 0
    /\ \E i \in Dispatched : status[i] = "failure" /\ KindCount(out[i], "done") = 1

(***************************************************************************)
(* C3: every dispatched task acquires a slot once and releases it once on  *)
(* every exit path, no task releases a slot it does not hold, and when the *)
(* run returns the channel worker is empty.                                *)
(***************************************************************************)
C3_SlotOncePerTask ==
    /\ \A i \in Tasks :
          /\ rel[i] <= acq[i]
          /\ acq[i] <= 1
          /\ acq[i] = (IF pc[i] \in {"none", "acquire"} THEN 0 ELSE 1)
          /\ pc[i] \in {"wgdone", "end"} => rel[i] = 1
    /\ worker = HeldSlots
    /\ RunReturned =>
          /\ worker = 0
          /\ \A i \in 1..NumDirs : acq[i] = 1 /\ rel[i] = 1

\* the run returned after one task failed to start, one failed at run time
\* and none leaked its slot
C3_Witness ==
    /\ RunReturned
    /\ worker = 0
    /\ \E i \in Dispatched : StartFailed(i) /\ rel[i] = 1
    /\ \E i \in Dispatched : child[i] = "exited" /\ status[i] = "failure" /\ rel[i] = 1

(***************************************************************************)
(* C4: under fair scheduling, with every child process ending, every task  *)
(* that waits for a slot gets one and reaches its end, and main returns.   *)
(***************************************************************************)
C4_Liveness ==
    /\ <>(mpc = "returned")
    /\ \A i \in Tasks : (pc[i] = "acquire") ~> (pc[i] = "end")
    /\ \A i \in Tasks :
          (pc[i] = "acquire" /\ worker < workerCap) ~> (pc[i] # "acquire")

\* a run with more directories than slots returned
C4_Witness ==
    /\ RunReturned
    /\ NumDirs > concurrency
    /\ \A i \in 1..NumDirs : pc[i] = "end"

(***************************************************************************)
(* C5: main does not return from wg.Wait() while a dispatched task has not *)
(* logged its terminal line and released its slot: at the return all N     *)
(* tasks are at their end and hold no slot.                                *)
(***************************************************************************)
C5_ReturnAfterAll ==
    RunReturned =>
        \A i \in 1..NumDirs :
            /\ pc[i] = "end"
            /\ ~Holding(i)
            /\ acq[i] = 1
            /\ out[i] # <<>>
            /\ out[i][Len(out[i])].kind \in {"done", "startfail"}

\* main returned from a run of at least two tasks
C5_Witness == RunReturned /\ NumDirs >= 2

(***************************************************************************)
(* C6: a task whose shell cannot be started writes its start banner and a  *)
(* start-failure line tagged with its directory, nothing else, and         *)
(* releases its slot; the failing step changes nothing of any other task,  *)
(* and when the run returns every other task is at its own end.            *)
(***************************************************************************)
C6_FailedTask(i) ==
    /\ out[i] = <<[kind |-> "start", dir |-> osArgs[i + 2]],
                  [kind |-> "startfail", dir |-> osArgs[i + 2]]>>
    /\ pc[i] \in {"wgdone", "end"} => rel[i] = 1
    /\ RunReturned =>
          \A j \in (1..NumDirs) \ {i} :
              /\ pc[j] = "end"
              /\ ~StartFailed(j) => KindCount(out[j], "done") = 1

C6_FailingStep(i) ==
    (pc[i] = "start" /\ pc'[i] # "start" /\ child'[i] = "none") =>
        /\ worker' = worker /\ wg' = wg /\ mpc' = mpc
        /\ \A j \in Tasks \ {i} :
              /\ pc'[j] = pc[j] /\ out'[j] = out[j] /\ child'[j] = child[j]
              /\ status'[j] = status[j] /\ pipe'[j] = pipe[j]
              /\ acq'[j] = acq[j] /\ rel'[j] = rel[j]

C6_StartFailureIsolated ==
    /\ [](\A i \in Tasks : StartFailed(i) => C6_FailedTask(i))
    /\ [][\A i \in Tasks : C6_FailingStep(i)]_vars

\* the run returned; one task failed to start and another ran to a clean end
C6_Witness ==
    /\ RunReturned
    /\ \E i, j \in 1..NumDirs :
          /\ StartFailed(i)
          /\ child[j] = "exited" /\ status[j] = "success"
          /\ KindCount(out[j], "done") = 1

(***************************************************************************)
(* C7: a task whose child exits non-zero or is killed writes one           *)
(* execution-error line tagged with its directory (not a start-failure     *)
(* line), then its completion banner, and releases its slot; the process   *)
(* exits with code 0 however many directories failed.                      *)
(***************************************************************************)
C7_RuntimeFailure ==
    /\ \A i \in Tasks :
          (child[i] = "exited" /\ status[i] = "failure") =>
              /\ KindCount(out[i], "startfail") = 0
              /\ pc[i] \in {"scan", "wait"} => KindCount(out[i], "execerror") = 0
              /\ pc[i] = "finish" =>
                    out[i][Len(out[i])] =
                        [kind |-> "execerror", dir |-> osArgs[i + 2], err |-> "failure"]
              /\ pc[i] \in {"release", "wgdone", "end"} =>
                    /\ Len(out[i]) >= 3
                    /\ out[i][Len(out[i])] = [kind |-> "done", dir |-> osArgs[i + 2]]
                    /\ out[i][Len(out[i]) - 1] =
                          [kind |-> "execerror", dir |-> osArgs[i + 2], err |-> "failure"]
                    /\ KindCount(out[i], "execerror") = 1
              /\ pc[i] \in {"wgdone", "end"} => rel[i] = 1
    /\ mpc = "returned" => exitCode = {0}
    /\ mpc # "returned" => exitCode = NotExited

\* the run returned with exit code 0 although every one of its (at least two)
\* tasks failed at run time
C7_Witness ==
    /\ RunReturned
    /\ exitCode = {0}
    /\ NumDirs >= 2
    /\ \A i \in 1..NumDirs : child[i] = "exited" /\ status[i] = "failure"

(***************************************************************************)
(* C8: when the requested group is not a key of the merged configuration's *)
(* Groups, main prints the not-found message and returns; no task is       *)
(* dispatched, no slot acquired, no banner written, no child spawned.      *)
(***************************************************************************)
PastLookup == mpc \in {"concurrency", "dispatch", "returned"} /\ Len(osArgs) >= 3

C8_GroupNotFound ==
    (PastLookup /\ osArgs[2] \notin DOMAIN cfg.Groups) =>
        /\ mpc = "returned"
        /\ mainOut # <<>>
        /\ mainOut[Len(mainOut)] = [kind |-> "notfound", group |-> osArgs[2]]
        /\ KindCount(mainOut, "maxconc") = 0
        /\ worker = 0 /\ wg = 0 /\ workerCap = 0
        /\ \A i \in Tasks :
              /\ pc[i] = "none" /\ acq[i] = 0 /\ rel[i] = 0
              /\ out[i] = <<>> /\ child[i] = "none"

\* main returned on a missing group although an external file was merged and
\* directories were given
C8_Witness ==
    /\ mpc = "returned"
    /\ Len(osArgs) >= 4
    /\ external.exists
    /\ osArgs[2] \notin DOMAIN cfg.Groups
    /\ KindCount(mainOut, "notfound") = 1

(***************************************************************************)
(* The concurrency ceiling on its own: main from its start to the creation *)
(* of the channel, on configuration texts whose concurrency setting ranges *)
(* over every string of at most MaxValLen characters.                      *)
(***************************************************************************)
ValChars == {"-", "+", "0", "1", "2", "9", "x", " "}

ConcTexts ==
    {Join(<<L_g, <<"a">>>>), Join(<<L_settings, L_g, <<"a">>>>)}
      \cup {Join(<<L_settings, L_concurrency(v), L_g, <<"a">>>>) :
               v \in SeqsUpTo(ValChars, MaxValLen)}

InitConc ==
    /\ osArgs = <<ProgName, <<"g">>, <<"d", "1">>>>
    /\ embedded \in ConcTexts
    /\ external = NoFile
    /\ InitRun

NextConc == MainArgs \/ MainLoad \/ MainLookup \/ MainConcurrency

SpecConc == InitConc /\ [][NextConc]_vars

\* the decimal numeral of n >= 0, most significant digit first
DigitChars == <<"0", "1", "2", "3", "4", "5", "6", "7", "8", "9">>

RECURSIVE Itoa(_)
Itoa(n) == IF n < 10 THEN <<DigitChars[n + 1]>> ELSE Itoa(n \div 10) \o <<DigitChars[(n % 10) + 1]>>

\* s writes the positive integer n: an optional "+", any number of leading
\* zeros, the numeral of n
Writes(s, n) ==
    \E sign \in {<<>>, <<"+">>} : \E z \in 0..Len(s) :
        s = sign \o [k \in 1..z |-> "0"] \o Itoa(n)

RECURSIVE Pow10(_)
Pow10(k) == IF k = 0 THEN 1 ELSE 10 * Pow10(k - 1)

\* the positive integers a setting of at most MaxValLen characters can write
PositiveValues == 1..(Pow10(MaxValLen) - 1)

(***************************************************************************)
(* C9: the effective concurrency is 3 when Settings["concurrency"] is      *)
(* missing or does not write a positive integer (not an integer, zero,     *)
(* negative), and is that positive integer otherwise; the capacity of the  *)
(* channel worker is the concurrency, hence at least 1.                    *)
(***************************************************************************)
C9_EffectiveConcurrency ==
    mpc = "dispatch" =>
        /\ IF /\ S_concurrency \in DOMAIN cfg.Settings
              /\ \E n \in PositiveValues : Writes(cfg.Settings[S_concurrency], n)
           THEN \E n \in PositiveValues :
                    Writes(cfg.Settings[S_concurrency], n) /\ concurrency = n
           ELSE concurrency = 3
        /\ workerCap = concurrency
        /\ workerCap >= 1

\* the setting is present and writes zero, and the ceiling is 3
C9_Witness ==
    /\ mpc = "dispatch"
    /\ S_concurrency \in DOMAIN cfg.Settings
    /\ cfg.Settings[S_concurrency] = <<"0">>
    /\ concurrency = 3
    /\ workerCap = 3

(***************************************************************************)
(* mergeConfig on its own: main from its start to the merge, on an         *)
(* embedded and an external text that write every pair of configurations   *)
(* over two setting keys and two groups.                                   *)
(***************************************************************************)
KeySeq == <<<<"p">>, <<"q">>>>
ValSet == {<<"1">>, <<"2">>}
NameSeq == <<<<"g">>, <<"h">>>>
CmdSet == {<<"a">>, <<"b">>}

Range(seq) == {seq[n] : n \in 1..Len(seq)}

SettingMaps == UNION {[D -> ValSet] : D \in SUBSET Range(KeySeq)}

\* group g has at most MaxCmds commands; group h, when present, is <<a>>
GroupMaps ==
    UNION {{f \in [D -> SeqsUpTo(CmdSet, MaxCmds)] : <<"h">> \in D => f[<<"h">>] = <<<<"a">>>>} :
             D \in SUBSET Range(NameSeq)}

Configs == [Settings : SettingMaps, Groups : GroupMaps]

\* a text that writes configuration c: the settings section, then each group
SettingLines(m) ==
    LET F[n \in 0..Len(KeySeq)] ==
            IF n = 0 THEN <<>>
            ELSE F[n - 1] \o (IF KeySeq[n] \in DOMAIN m
                              THEN <<KeySeq[n] \o <<"=">> \o m[KeySeq[n]]>>
                              ELSE <<>>)
    IN  IF DOMAIN m = {} THEN <<>> ELSE <<L_settings>> \o F[Len(KeySeq)]

GroupLines(m) ==
    LET F[n \in 0..Len(NameSeq)] ==
            IF n = 0 THEN <<>>
            ELSE F[n - 1] \o (IF NameSeq[n] \in DOMAIN m
                              THEN <<<<"[">> \o NameSeq[n] \o <<"]">>>> \o m[NameSeq[n]]
                              ELSE <<>>)
    IN  F[Len(NameSeq)]

Render(c) == Join(SettingLines(c.Settings) \o GroupLines(c.Groups))

InitMerge ==
    /\ osArgs = <<ProgName, <<"g">>, <<"d", "1">>>>
    /\ \E b \in Configs : embedded = Render(b)
    /\ \E o \in Configs : external = File(Render(o))
    /\ InitRun

NextMerge == MainArgs \/ MainLoad \/ MainMerge

SpecMerge == InitMerge /\ [][NextMerge]_vars

(***************************************************************************)
(* C10: after mergeConfig(base, override) every group of override is the   *)
(* override's command list as a whole, every group of base alone is kept   *)
(* unchanged, every setting of base alone survives and every setting of    *)
(* both has the override's value; the result has no other key.             *)
(***************************************************************************)
C10_MergeSemantics ==
    (mpc = "lookup" /\ external.exists) =>
        /\ DOMAIN cfg.Groups = (DOMAIN base.Groups) \cup (DOMAIN override.Groups)
        /\ \A g \in DOMAIN override.Groups : cfg.Groups[g] = override.Groups[g]
        /\ \A g \in (DOMAIN base.Groups) \ (DOMAIN override.Groups) :
              cfg.Groups[g] = base.Groups[g]
        /\ DOMAIN cfg.Settings = (DOMAIN base.Settings) \cup (DOMAIN override.Settings)
        /\ \A k \in (DOMAIN base.Settings) \ (DOMAIN override.Settings) :
              cfg.Settings[k] = base.Settings[k]
        /\ \A k \in DOMAIN override.Settings : cfg.Settings[k] = override.Settings[k]

\* base g = [a, b] is replaced by override g = [b]; group h and setting p of
\* base alone are kept; setting q of both has the override's value
C10_Witness ==
    /\ mpc = "lookup"
    /\ external.exists
    /\ base.Groups = (<<"g">> :> <<<<"a">>, <<"b">>>> @@ <<"h">> :> <<<<"a">>>>)
    /\ override.Groups = (<<"g">> :> <<<<"b">>>>)
    /\ cfg.Groups = (<<"g">> :> <<<<"b">>>> @@ <<"h">> :> <<<<"a">>>>)
    /\ base.Settings = (<<"p">> :> <<"1">> @@ <<"q">> :> <<"1">>)
    /\ override.Settings = (<<"q">> :> <<"2">>)
    /\ cfg.Settings = (<<"p">> :> <<"1">> @@ <<"q">> :> <<"2">>)

(***************************************************************************)
(* mergeConfig on the heap.  A Go map and a slice are references: a        *)
(* *Config is a pair of addresses of maps, and a group's command list is a *)
(* slice header [arr, len] over a backing array.  The configurations live  *)
(* in heap; after the call the caller may change the result it was handed. *)
(***************************************************************************)
\* a slice over a fresh backing array holding elems; a slice of no element
\* needs no array
NewSlice(h, elems) ==
    IF elems = <<>>
    THEN [heap |-> h, slice |-> [arr |-> 0, len |-> 0]]
    ELSE [heap |-> [h EXCEPT !.arrays = Append(@, elems)],
          slice |-> [arr |-> Len(h.arrays) + 1, len |-> Len(elems)]]

\* the elements of slice s
Elems(h, s) == IF s.len = 0 THEN <<>> ELSE SubSeq(h.arrays[s.arr], 1, s.len)

\* a copy that is the same slice header, over the same backing array
CopySliceShared(h, s) == [heap |-> h, slice |-> s]

\* append([]string{}, cmds...): the elements of cmds in a fresh array
CopySlice(h, s) == NewSlice(h, Elems(h, s))

\* for g, cmds := range src { dst[g] = append([]string{}, cmds...) }, for the
\* keys of todo; dst and src are addresses of groups maps
RECURSIVE CopyGroups(_, _, _, _)
CopyGroups(h, dst, src, todo) ==
    IF todo = {} THEN h
    ELSE LET g == CHOOSE x \in todo : TRUE
             r == CopySlice(h, h.groups[src][g])
         IN  CopyGroups([r.heap EXCEPT !.groups[dst] = MapSet(@, g, r.slice)],
                        dst, src, todo \ {g})

\* lines 66-89 on the heap: [heap |-> the heap after the call, result |-> the
\* *Config returned]
mergeConfigOnHeap(h, b, o) ==
    LET res == [Settings |-> Len(h.settings) + 1, Groups |-> Len(h.groups) + 1]
        h1 == [h EXCEPT !.settings = Append(@, EmptyMap), !.groups = Append(@, EmptyMap)]
        h2 == [h1 EXCEPT !.settings[res.Settings] = MapCopyInto(@, h1.settings[b.Settings])]
        h3 == CopyGroups(h2, res.Groups, b.Groups, DOMAIN h2.groups[b.Groups])
        h4 == [h3 EXCEPT !.settings[res.Settings] = MapCopyInto(@, h3.settings[o.Settings])]
        h5 == CopyGroups(h4, res.Groups, o.Groups, DOMAIN h4.groups[o.Groups])
    IN  [heap |-> h5, result |-> res]

\* the configuration a *Config denotes
Deref(h, c) ==
    [Settings |-> h.settings[c.Settings],
     Groups   |-> [g \in DOMAIN h.groups[c.Groups] |-> Elems(h, h.groups[c.Groups][g])]]

\* the heap as parseConfig leaves it for configuration c: two fresh maps, and
\* for every group a slice of its own
RECURSIVE StoreGroups(_, _, _, _)
StoreGroups(h, dst, gm, todo) ==
    IF todo = {} THEN h
    ELSE LET g == CHOOSE x \in todo : TRUE
             r == NewSlice(h, gm[g])
         IN  StoreGroups([r.heap EXCEPT !.groups[dst] = MapSet(@, g, r.slice)],
                         dst, gm, todo \ {g})

StoreConfig(h, c) ==
    LET ref == [Settings |-> Len(h.settings) + 1, Groups |-> Len(h.groups) + 1]
        h1 == [h EXCEPT !.settings = Append(@, c.Settings), !.groups = Append(@, EmptyMap)]
    IN  [heap |-> StoreGroups(h1, ref.Groups, c.Groups, DOMAIN c.Groups), ref |-> ref]

\* line 141 with the heap: cfg = mergeConfig(cfg, override)
FrameMerge ==
    /\ fpc = "call"
    /\ mpc = "merge"
    /\ LET r == mergeConfigOnHeap(heap, refs.base, refs.override)
       IN  /\ heap' = r.heap
           /\ refs' = [refs EXCEPT !.result = r.result]
    /\ cfg' = mergeConfig(cfg, override)
    /\ mpc' = "lookup"
    /\ fpc' = "merged"
    /\ UNCHANGED <<inputVars, base, override, cmds, concurrency, workerCap, mainOut,
                   exitCode, worker, wg, di, pc, script, childVars, out, acq, rel>>

\* what the caller writes into the result
Written == <<"w">>

\* result.Groups[g][k] = Written
ResultSetElem ==
    /\ fpc \in {"merged", "written"}
    /\ \E g \in DOMAIN heap.groups[refs.result.Groups] :
          LET s == heap.groups[refs.result.Groups][g]
          IN  \E k \in 1..s.len : heap' = [heap EXCEPT !.arrays[s.arr][k] = Written]
    /\ fpc' = "written"
    /\ UNCHANGED <<inputVars, mainVars, refs, worker, wg, pc, script, childVars,
                   out, acq, rel>>

\* result.Settings[k] = Written
ResultSetSetting ==
    /\ fpc \in {"merged", "written"}
    /\ \E k \in {<<"p">>, <<"q">>} :
          heap' = [heap EXCEPT !.settings[refs.result.Settings] = MapSet(@, k, Written)]
    /\ fpc' = "written"
    /\ UNCHANGED <<inputVars, mainVars, refs, worker, wg, pc, script, childVars,
                   out, acq, rel>>

\* result.Groups[g] = nil
ResultSetGroup ==
    /\ fpc \in {"merged", "written"}
    /\ \E g \in {<<"g">>, <<"h">>} :
          heap' = [heap EXCEPT !.groups[refs.result.Groups] =
                                   MapSet(@, g, [arr |-> 0, len |-> 0])]
    /\ fpc' = "written"
    /\ UNCHANGED <<inputVars, mainVars, refs, worker, wg, pc, script, childVars,
                   out, acq, rel>>

\* the base configurations: every configuration over setting p and groups g, h
FrameBases == {c \in Configs : <<"q">> \notin DOMAIN c.Settings}

\* the override configurations: none, one that redefines p and g, one whose
\* group g is empty
FrameOverrides ==
    {NewConfig,
     [Settings |-> (<<"p">> :> <<"2">>), Groups |-> (<<"g">> :> <<<<"b">>>>)],
     [Settings |-> EmptyMap, Groups |-> (<<"g">> :> <<>>)]}

\* main at the call of line 141, both configurations parsed
InitFrame ==
    /\ osArgs = <<ProgName, <<"g">>, <<"d", "1">>>>
    /\ embedded = <<>>
    /\ external = File(<<>>)
    /\ mpc = "merge"
    /\ base \in FrameBases
    /\ override \in FrameOverrides
    /\ cfg = base
    /\ cmds = <<>>
    /\ concurrency = 0
    /\ workerCap = 0
    /\ worker = 0
    /\ wg = 0
    /\ di = 0
    /\ pc = [i \in Tasks |-> "none"]
    /\ script = [i \in Tasks |-> <<>>]
    /\ child = [i \in Tasks |-> "none"]
    /\ emitted = NoTask
    /\ pipe = [i \in Tasks |-> <<>>]
    /\ status = [i \in Tasks |-> "none"]
    /\ out = [i \in Tasks |-> <<>>]
    /\ mainOut = <<[kind |-> "override"]>>
    /\ acq = NoTask
    /\ rel = NoTask
    /\ exitCode = NotExited
    /\ LET b == StoreConfig(EmptyHeap, base)
           o == StoreConfig(b.heap, override)
       IN  /\ heap = o.heap
           /\ refs = [base |-> b.ref, override |-> o.ref, result |-> NoRef]
    /\ fpc = "call"

NextFrame == FrameMerge \/ ResultSetElem \/ ResultSetSetting \/ ResultSetGroup

SpecFrame == InitFrame /\ [][NextFrame]_vars

(***************************************************************************)
(* C11: mergeConfig leaves base and override as they were (settings and    *)
(* groups), its result is the merged configuration, and whatever the       *)
(* caller then writes into the result's settings, groups or command lists, *)
(* base and override still are as they were: the result shares no map and  *)
(* no backing array with them.                                             *)
(***************************************************************************)
C11_MergeNonDestructive ==
    /\ Deref(heap, refs.base) = base
    /\ Deref(heap, refs.override) = override
    /\ fpc = "merged" => Deref(heap, refs.result) = cfg
    /\ fpc \in {"merged", "written"} =>
          /\ refs.result.Settings \notin {refs.base.Settings, refs.override.Settings}
          /\ refs.result.Groups \notin {refs.base.Groups, refs.override.Groups}

\* the caller overwrote a command of a group the result took from base and one
\* of a group it took from override, and both still have theirs
C11_Witness ==
    /\ fpc = "written"
    /\ <<"g">> \in DOMAIN override.Groups /\ override.Groups[<<"g">>] # <<>>
    /\ <<"h">> \in DOMAIN base.Groups
    /\ Deref(heap, refs.result).Groups[<<"g">>] = <<<<"w">>>>
    /\ Deref(heap, refs.result).Groups[<<"h">>] = <<<<"w">>>>
    /\ Deref(heap, refs.base).Groups[<<"h">>] = <<<<"a">>>>
    /\ Deref(heap, refs.override).Groups[<<"g">>] = <<<<"b">>>>

(***************************************************************************)
(* C12: in the output, the lines of each task are, in this order: its      *)
(* start banner; the lines its child wrote, in the order the child wrote   *)
(* them, each tagged with the task's directory; then, if any, its          *)
(* execution-error line and its terminal line.  The n-th line the child    *)
(* wrote carries the number n, so the tagged line at position n + 1 must   *)
(* carry n.  A terminal completion banner follows every line of the child. *)
(***************************************************************************)
C12_PerDirectoryOrder ==
    \A i \in Tasks :
        /\ Len(out[i]) >= 1 => out[i][1] = [kind |-> "start", dir |-> osArgs[i + 2]]
        /\ \A n \in 1..Len(out[i]) :
              /\ out[i][n].kind = "start" => n = 1
              /\ out[i][n].kind = "line" =>
                    /\ out[i][n] = [kind |-> "line", dir |-> osArgs[i + 2], line |-> n - 1]
                    /\ n - 1 <= emitted[i]
              /\ out[i][n].kind \in {"execerror", "done", "startfail"} =>
                    \A k \in 1..Len(out[i]) : out[i][k].kind = "line" => k < n
              /\ out[i][n].kind \in {"done", "startfail"} => n = Len(out[i])
              /\ out[i][n].kind = "done" => KindCount(out[i], "line") = emitted[i]

\* the first task printed two lines of its child, in order, and its completion
\* banner, while the second task, which printed a line, has not finished
C12_Witness ==
    /\ NumDirs >= 2
    /\ Len(out[1]) >= 4
    /\ out[1][2].kind = "line" /\ out[1][2].line = 1
    /\ out[1][3].kind = "line" /\ out[1][3].line = 2
    /\ out[1][Len(out[1])].kind = "done"
    /\ KindCount(out[2], "line") = 1
    /\ pc[2] = "scan"

(***************************************************************************)
(* C13: main dispatches one task for every position of the directory list  *)
(* and none else, each position once (equal paths at two positions are two *)
(* tasks); a task writes its start banner once and starts a child process  *)
(* at most once; with no directory on the command line no task is          *)
(* dispatched and main returns at once.                                    *)
(***************************************************************************)
C13_Positions ==
    /\ \A i \in Tasks :
          /\ pc[i] # "none" <=> (mpc \in {"dispatch", "returned"} /\ 1 <= i /\ i < di)
          /\ i > NumDirs => pc[i] = "none"
          /\ KindCount(out[i], "start") = (IF pc[i] \in {"none", "acquire", "banner"} THEN 0 ELSE 1)
          /\ child[i] # "none" => pc[i] \notin {"none", "acquire", "banner", "start"}
    /\ RunReturned => {i \in Tasks : pc[i] = "end"} = 1..NumDirs
    /\ (NumDirs = 0 /\ mpc # "args") =>
          /\ mpc = "returned"
          /\ di = 0 /\ wg = 0
          /\ \A i \in Tasks : pc[i] = "none" /\ out[i] = <<>> /\ child[i] = "none"

C13_Step ==
    \A i \in Tasks :
        /\ (pc'[i] = "acquire" /\ pc[i] # "acquire") =>
              /\ pc[i] = "none" /\ di = i /\ di' = i + 1 /\ wg' = wg + 1
        /\ pc[i] # "none" => pc'[i] # "none"
        /\ (child'[i] = "running" /\ child[i] # "running") =>
              /\ child[i] = "none" /\ pc[i] = "start"
        /\ child[i] # "none" => child'[i] # "none"

C13_AttemptedOnce == []C13_Positions /\ [][C13_Step]_vars

\* the run of a list that names the same directory twice returned: two tasks,
\* each with its own start banner and its own child
C13_Witness ==
    /\ RunReturned
    /\ NumDirs = 2
    /\ osArgs[3] = osArgs[4]
    /\ \A i \in 1..2 : pc[i] = "end" /\ child[i] = "exited" /\ KindCount(out[i], "start") = 1

(***************************************************************************)
(* C14: when the command line has no group, or a group and no directory,   *)
(* main prints the usage message and nothing else and returns: no          *)
(* configuration is parsed or merged, no channel made, no task dispatched, *)
(* no child started.  With a group and a directory it prints no usage      *)
(* message.                                                                *)
(***************************************************************************)
C14_Usage ==
    /\ (Len(osArgs) < 3 /\ mpc # "args") =>
          /\ mpc = "returned"
          /\ exitCode = {0}
          /\ mainOut = <<[kind |-> "usage"]>>
          /\ base = [Settings |-> EmptyMap, Groups |-> EmptyMap]
          /\ override = [Settings |-> EmptyMap, Groups |-> EmptyMap]
          /\ cfg = [Settings |-> EmptyMap, Groups |-> EmptyMap]
          /\ cmds = <<>>
          /\ workerCap = 0 /\ worker = 0 /\ wg = 0 /\ di = 0
          /\ \A i \in Tasks :
                /\ pc[i] = "none" /\ out[i] = <<>> /\ child[i] = "none"
                /\ acq[i] = 0 /\ script[i] = <<>>
    /\ Len(osArgs) >= 3 => KindCount(mainOut, "usage") = 0

\* main returned on a command line that has a group and no directory, although
\* an external file is there to be read
C14_Witness ==
    /\ Len(osArgs) = 2
    /\ external.exists
    /\ mpc = "returned"
    /\ mainOut = <<[kind |-> "usage"]>>

(***************************************************************************)
(* C15: while the child of a task runs, the task stays in its scan loop,   *)
(* holds its slot, has written no execution-error line and no terminal     *)
(* line, and main has not returned; a running child stops running only by  *)
(* a step of its own, which is no step of main or of a task; and while as  *)
(* many children run as there are slots, no task that waits for a slot     *)
(* gets one.  Hence a child that runs forever keeps the run from           *)
(* returning, forever.                                                     *)
(***************************************************************************)
C15_WhileRunning ==
    \A i \in Tasks :
        child[i] = "running" =>
            /\ pc[i] = "scan"
            /\ acq[i] = 1 /\ rel[i] = 0
            /\ \A n \in 1..Len(out[i]) : out[i][n].kind \in {"start", "line"}
            /\ mpc = "dispatch"
            /\ wg >= 1
            /\ exitCode = NotExited

C15_Step ==
    /\ \A i \in Tasks :
          child[i] = "running" =>
              \/ child'[i] = "running"
              \/ /\ child'[i] = "exited"
                 /\ pc' = pc /\ out' = out /\ mpc' = mpc
                 /\ worker' = worker /\ wg' = wg /\ rel' = rel
    /\ LiveChildren = workerCap =>
          \A j \in Tasks : pc[j] = "acquire" => pc'[j] = "acquire"

C15_NoCancellation ==
    /\ []C15_WhileRunning
    /\ [][C15_Step]_vars
    /\ \A i \in Tasks :
          <>[](child[i] = "running") => [](mpc # "returned" /\ pc[i] # "end" /\ rel[i] = 0)

\* as many children run as there are slots, each has written all it will write
\* and the engine has printed it, and another task waits for a slot: no step of
\* main or of a task is possible
C15_Witness ==
    /\ workerCap >= 1
    /\ LiveChildren = workerCap
    /\ \E j \in Tasks : pc[j] = "acquire"
    /\ \A i \in Tasks : child[i] = "running" => pipe[i] = <<>> /\ emitted[i] >= 1
    /\ ~ENABLED (Main \/ \E i \in Tasks : Task(i))

(***************************************************************************)
(* C16: in every task the send on worker comes before the start banner and *)
(* before the child is started; the terminal line (start-failure line or   *)
(* completion banner) is written before the receive from worker; and the   *)
(* receive from worker comes before wg.Done(), whether the child failed to *)
(* start, failed at run time or exited 0.                                  *)
(***************************************************************************)
C16_Order ==
    \A i \in Tasks :
        /\ (out[i] # <<>> \/ child[i] # "none") => acq[i] = 1
        /\ rel[i] >= 1 =>
              /\ out[i] # <<>>
              /\ out[i][Len(out[i])].kind \in {"startfail", "done"}
        /\ pc[i] = "end" => rel[i] = 1

C16_Step ==
    \A i \in Tasks :
        /\ acq'[i] # acq[i] => (out[i] = <<>> /\ child[i] = "none")
        /\ (out'[i] # out[i] \/ (child[i] = "none" /\ child'[i] # "none")) =>
              (acq[i] = 1 /\ rel[i] = 0)
        /\ rel'[i] # rel[i] =>
              /\ out[i] # <<>>
              /\ out[i][Len(out[i])].kind \in {"startfail", "done"}
              /\ out'[i] = out[i]
              /\ wg' = wg
        /\ (pc'[i] = "end" /\ pc[i] # "end") => (wg' = wg - 1 /\ rel[i] = 1)
        /\ wg' < wg => \E j \in Tasks : pc'[j] = "end" /\ pc[j] # "end" /\ rel[j] = 1

C16_LifecycleOrder == []C16_Order /\ [][C16_Step]_vars

\* two exit paths at once: a task that failed to start has released its slot
\* and not yet called wg.Done(); another, whose child failed, is past wg.Done()
C16_Witness ==
    /\ \E i \in Tasks :
          /\ child[i] = "none" /\ rel[i] = 1 /\ pc[i] = "wgdone"
          /\ out[i][Len(out[i])].kind = "startfail"
    /\ \E j \in Tasks :
          /\ child[j] = "exited" /\ status[j] = "failure" /\ pc[j] = "end"
          /\ out[j][Len(out[j])].kind = "done"

(***************************************************************************)
(* C17: a task writes a line (start banner, tagged line, start-failure or  *)
(* execution-error line, completion banner) only while it holds a slot;    *)
(* so in every state, that is at every prefix of the output, the tasks     *)
(* whose start banner is written and whose terminal line is not all hold a *)
(* slot and are at most as many as the concurrency ceiling.                *)
(***************************************************************************)
C17_Active ==
    {i \in Tasks : /\ KindCount(out[i], "start") >= 1
                   /\ KindCount(out[i], "startfail") + KindCount(out[i], "done") = 0}

C17_Bounded ==
    /\ \A i \in C17_Active : acq[i] > rel[i]
    /\ Cardinality(C17_Active) <= concurrency
    /\ \A i \in Tasks : acq[i] = 0 => out[i] = <<>>

C17_Step ==
    \A i \in Tasks :
        out'[i] # out[i] =>
            /\ acq[i] > rel[i]
            /\ acq'[i] > rel'[i]
            /\ Len(out'[i]) = Len(out[i]) + 1
            /\ out'[i][Len(out'[i])].kind \in {"start", "line", "startfail", "execerror", "done"}

C17_LinesWhileHolding == []C17_Bounded /\ [][C17_Step]_vars

\* as many directories are between their start banner and their terminal line
\* as there are slots, while one more task waits and has written nothing
C17_Witness ==
    /\ concurrency >= 1
    /\ Cardinality(C17_Active) = concurrency
    /\ \E i \in C17_Active : KindCount(out[i], "line") >= 1
    /\ \E j \in Tasks : pc[j] = "acquire" /\ out[j] = <<>>

(***************************************************************************)
(* C18: a task never writes more than one terminal line and never both     *)
(* kinds.  A task that wrote the start-failure line has no child and wrote *)
(* nothing but its start banner and that line: no tagged line, no          *)
(* execution-error line, no completion banner.  A task whose child started *)
(* never writes the start-failure line, and when it has ended it has       *)
(* written the completion banner exactly once, as its last line.           *)
(***************************************************************************)
C18_TerminalExclusive ==
    \A i \in Tasks :
        /\ KindCount(out[i], "startfail") + KindCount(out[i], "done") <= 1
        /\ KindCount(out[i], "execerror") <= 1
        /\ KindCount(out[i], "startfail") = 1 =>
              /\ child[i] = "none"
              /\ Len(out[i]) = 2
              /\ out[i][1].kind = "start" /\ out[i][2].kind = "startfail"
        /\ child[i] # "none" => KindCount(out[i], "startfail") = 0
        /\ pc[i] = "end" =>
              /\ KindCount(out[i], "startfail") = (IF child[i] = "none" THEN 1 ELSE 0)
              /\ KindCount(out[i], "done") = (IF child[i] = "none" THEN 0 ELSE 1)
              /\ out[i][Len(out[i])].kind = (IF child[i] = "none" THEN "startfail" ELSE "done")

\* two tasks have ended: one failed to start and wrote the start-failure line
\* only, the other printed its child's output, an execution-error line and the
\* completion banner
C18_Witness ==
    /\ \E i \in Tasks :
          /\ pc[i] = "end" /\ child[i] = "none"
          /\ KindCount(out[i], "startfail") = 1 /\ KindCount(out[i], "done") = 0
    /\ \E j \in Tasks :
          /\ pc[j] = "end" /\ child[j] = "exited"
          /\ KindCount(out[j], "line") >= 1 /\ KindCount(out[j], "execerror") = 1
          /\ KindCount(out[j], "done") = 1 /\ KindCount(out[j], "startfail") = 0

(***************************************************************************)
(* Group headers: the whole program on one directory and group g, on       *)
(* embedded texts made of at most MaxTextLines lines out of "[settings]",  *)
(* "[g]" and "a", with or without an external text.                        *)
(***************************************************************************)
HeaderLines == {L_settings, L_g, <<"a">>}

EmbeddedLineSeqs == SeqsUpTo(HeaderLines, MaxTextLines)

\* external texts: an empty group g, a group g of one command, an empty group z
ExternalLineSeqs == {<<L_g>>, <<L_g, <<"a">>>>, <<L_z>>}

InitHeader ==
    /\ osArgs = <<ProgName, <<"g">>, <<"d", "1">>>>
    /\ \E ls \in EmbeddedLineSeqs : embedded = Join(ls)
    /\ external \in {NoFile} \cup {File(Join(ls)) : ls \in ExternalLineSeqs}
    /\ InitRun

SpecHeader == InitHeader /\ [][Next]_vars

\* the lines a text was made of
LinesOf(text, seqs) == CHOOSE ls \in seqs : Join(ls) = text

\* the configuration's groups read off the lines: a group for every name that
\* has a header, holding the lines between the last header of that name and
\* the next header of any name
HeaderOf(name) == <<"[">> \o name \o <<"]">>

IsHeaderLine(l) == l \in {L_settings, L_g, L_z}

LastHeader(ls, name) ==
    LET at == {n \in 1..Len(ls) : ls[n] = HeaderOf(name)}
    IN  CHOOSE n \in at : \A m \in at : m <= n

SectionAfter(ls, n) ==
    LET stop == {m \in (n + 1)..Len(ls) : IsHeaderLine(ls[m])} \cup {Len(ls) + 1}
        e == CHOOSE m \in stop : \A k \in stop : m <= k
    IN  SubSeq(ls, n + 1, e - 1)

GroupsRead(ls) ==
    [name \in {x \in {<<"g">>, <<"z">>} : \E n \in 1..Len(ls) : ls[n] = HeaderOf(x)} |->
        SectionAfter(ls, LastHeader(ls, name))]

(***************************************************************************)
(* C19: parseConfig yields a group for every name other than settings that *)
(* has a header line, and the group holds the command lines that follow    *)
(* the LAST header of that name (commands under an earlier header of the   *)
(* same name are gone; a header followed by no command gives an empty      *)
(* group that exists).  A group the external text defines, empty or not,   *)
(* replaces the embedded one in the merged configuration; and a requested  *)
(* group that exists is found even when it is empty: no not-found message, *)
(* the task is dispatched and runs the empty script.                       *)
(***************************************************************************)
C19_HeaderSemantics ==
    /\ mpc \notin {"args", "load"} =>
          /\ base.Groups = GroupsRead(LinesOf(embedded, EmbeddedLineSeqs))
          /\ external.exists =>
                override.Groups = GroupsRead(LinesOf(external.text, ExternalLineSeqs))
    /\ (mpc \notin {"args", "load", "merge"} /\ external.exists) =>
          \A name \in DOMAIN override.Groups :
              /\ name \in DOMAIN cfg.Groups
              /\ cfg.Groups[name] = override.Groups[name]
    /\ (mpc \in {"concurrency", "dispatch", "returned"} /\ osArgs[2] \in DOMAIN cfg.Groups) =>
          /\ KindCount(mainOut, "notfound") = 0
          /\ cmds = cfg.Groups[osArgs[2]]
          /\ mpc = "returned" => pc[1] = "end"
          /\ \A i \in Tasks :
                pc[i] \notin {"none", "acquire", "banner", "start"} => script[i] = Join(cmds)

\* the embedded text has "[g]" twice, each followed by a command, and the
\* external text has an empty "[g]": group g of the embedded configuration is
\* the one command after the second header, the merged group g is empty, and
\* the run returned after its task ran the empty script
C19_Witness ==
    /\ embedded = Join(<<L_g, <<"a">>, L_g, <<"a">>>>)
    /\ external = File(Join(<<L_g>>))
    /\ mpc = "returned"
    /\ base.Groups[<<"g">>] = <<<<"a">>>>
    /\ override.Groups[<<"g">>] = <<>>
    /\ cfg.Groups[<<"g">>] = <<>>
    /\ KindCount(mainOut, "notfound") = 0
    /\ pc[1] = "end"
    /\ script[1] = <<>>
    /\ child[1] = "exited"

====
